---- MODULE Spec2Model ----
(***************************************************************************)
(* Model of src/analisis_estadistico.py: the AnalizadorEstadistico class,  *)
(* its frequency-table builder (calcular_tabla_frecuencias) and its        *)
(* descriptive statistics (calcular_estadisticas_descriptivas), and the    *)
(* sequence of steps of ejecutar_analisis_completo.                        *)
(*                                                                         *)
(* Numbers.  The program computes in IEEE-754 binary floating point        *)
(* (numpy float64): every +, -, *, / rounds its exact result to the        *)
(* nearest representable value, ties to even.  The model keeps exactly     *)
(* that arithmetic, with a significand of Prec bits instead of 53 (TLC's   *)
(* integers are 32 bits wide) and an unbounded exponent.  A finite float   *)
(* is the record [k |-> "fin", m |-> m, e |-> e] standing for m * 2^e,     *)
(* kept canonical (m odd, or m = 0 and e = 0) so that equal numbers are    *)
(* equal records.  NaN and the infinities are separate records.            *)
(***************************************************************************)
EXTENDS Integers, Sequences, FiniteSets, TLC

\* ------------------------------------------------------------------ bounds
\* significand width of the modelled floating-point format (binary64: 53)
Prec == 5
\* largest value read from the CSV column (values are 0..MaxVal)
MaxVal == 3
\* longest CSV column, missing cells included
MaxLen == 3
\* largest class count a caller passes explicitly (smallest is -1)
MaxClases == 11
\* largest series length on which Sturges' rule alone is exercised
MaxN == 128
\* longest CSV column of decimal (non-integer) numbers
MaxLenDec == 2

\* ------------------------------------------------- floating-point numbers
\* the powers of two 2^0 .. 2^30
Potencias ==
  << 1, 2, 4, 8, 16, 32, 64, 128, 256, 512, 1024, 2048, 4096, 8192, 16384,
     32768, 65536, 131072, 262144, 524288, 1048576, 2097152, 4194304,
     8388608, 16777216, 33554432, 67108864, 134217728, 268435456,
     536870912, 1073741824 >>

\* 2^n, 0 <= n <= 30
Pow2(n) == Potencias[n + 1]

Abs(i) == IF i < 0 THEN -i ELSE i

Min2(a, b) == IF a <= b THEN a ELSE b

NaN == [k |-> "nan", m |-> 0, e |-> 0]

\* m = 1 for +inf, m = -1 for -inf
Inf(s) == [k |-> "inf", m |-> s, e |-> 0]

IsNaN(a) == a.k = "nan"

IsFin(a) == a.k = "fin"

\* the canonical record of m * 2^e
RECURSIVE Norm(_, _)
Norm(m, e) ==
  IF m = 0 THEN [k |-> "fin", m |-> 0, e |-> 0]
  ELSE IF m % 2 = 0 THEN Norm(m \div 2, e + 1)
  ELSE [k |-> "fin", m |-> m, e |-> e]

\* round-to-nearest-even of s * (num / den) * 2^e to Prec significant bits
\* (s is 1 or -1, num >= 0, den > 0); a quotient that is an integer of at
\* most Prec bits is representable and is its own rounding
RECURSIVE Round(_, _, _, _)
Round(s, num, den, e) ==
  IF num % den = 0 /\ num \div den < Pow2(Prec) THEN Norm(s * (num \div den), e)
  ELSE IF num < den * Pow2(Prec - 1) THEN Round(s, 2 * num, den, e - 1)
  ELSE IF num >= den * Pow2(Prec) THEN Round(s, num, 2 * den, e + 1)
  ELSE LET q == num \div den
           r == num % den
           up == 2 * r > den \/ (2 * r = den /\ q % 2 = 1)
       IN  Norm(s * (IF up THEN q + 1 ELSE q), e)

Sign(i) == IF i < 0 THEN -1 ELSE 1

\* int -> float conversion
FromInt(i) == Round(Sign(i), Abs(i), 1, 0)

FNeg(a) == IF IsFin(a) THEN Norm(-a.m, a.e) ELSE IF IsNaN(a) THEN NaN ELSE Inf(-a.m)

\* a + b
FAdd(a, b) ==
  IF IsNaN(a) \/ IsNaN(b) THEN NaN
  ELSE IF ~IsFin(a) /\ ~IsFin(b) THEN (IF a.m = b.m THEN a ELSE NaN)
  ELSE IF ~IsFin(a) THEN a
  ELSE IF ~IsFin(b) THEN b
  ELSE LET ce == Min2(a.e, b.e)
           t == a.m * Pow2(a.e - ce) + b.m * Pow2(b.e - ce)
       IN  Round(Sign(t), Abs(t), 1, ce)

\* a - b
FSub(a, b) == FAdd(a, FNeg(b))

\* a * b
FMul(a, b) ==
  IF IsNaN(a) \/ IsNaN(b) THEN NaN
  ELSE IF ~IsFin(a) \/ ~IsFin(b)
       THEN (IF a.m = 0 \/ b.m = 0 THEN NaN ELSE Inf(Sign(a.m) * Sign(b.m)))
  ELSE Round(Sign(a.m) * Sign(b.m), Abs(a.m * b.m), 1, a.e + b.e)

\* a / b, numpy semantics: x/0 is +-inf, 0/0 is nan, no exception
FDiv(a, b) ==
  IF IsNaN(a) \/ IsNaN(b) THEN NaN
  ELSE IF ~IsFin(a) THEN (IF ~IsFin(b) THEN NaN
                          ELSE Inf(Sign(a.m) * Sign(b.m)))
  ELSE IF ~IsFin(b) THEN Norm(0, 0)
  ELSE IF b.m = 0 THEN (IF a.m = 0 THEN NaN ELSE Inf(Sign(a.m)))
  ELSE Round(Sign(a.m) * Sign(b.m), Abs(a.m), Abs(b.m), a.e - b.e)

\* a < b ; every comparison with NaN is false
FLt(a, b) ==
  IF IsNaN(a) \/ IsNaN(b) THEN FALSE
  ELSE IF ~IsFin(a) THEN a.m = -1 /\ (IsFin(b) \/ b.m = 1)
  ELSE IF ~IsFin(b) THEN b.m = 1
  ELSE LET ce == Min2(a.e, b.e)
       IN  a.m * Pow2(a.e - ce) < b.m * Pow2(b.e - ce)

\* a <= b
FLe(a, b) == ~IsNaN(a) /\ ~IsNaN(b) /\ ~FLt(b, a)

\* a >= b
FGe(a, b) == FLe(b, a)

\* ------------------------------------------------------- option values
\* Python's None, and a present value x, as sequences of length 0 and 1
None == <<>>

Some(x) == <<x>>

\* ----------------------------------------------------------- Sturges' rule
\* np.log10(n) for n = 1..200, in units of 10^-5 (rounded to nearest)
Log10E5 ==
  << 0, 30103, 47712, 60206, 69897, 77815, 84510, 90309, 95424, 100000,
     104139, 107918, 111394, 114613, 117609, 120412, 123045, 125527, 127875, 130103,
     132222, 134242, 136173, 138021, 139794, 141497, 143136, 144716, 146240, 147712,
     149136, 150515, 151851, 153148, 154407, 155630, 156820, 157978, 159106, 160206,
     161278, 162325, 163347, 164345, 165321, 166276, 167210, 168124, 169020, 169897,
     170757, 171600, 172428, 173239, 174036, 174819, 175587, 176343, 177085, 177815,
     178533, 179239, 179934, 180618, 181291, 181954, 182607, 183251, 183885, 184510,
     185126, 185733, 186332, 186923, 187506, 188081, 188649, 189209, 189763, 190309,
     190849, 191381, 191908, 192428, 192942, 193450, 193952, 194448, 194939, 195424,
     195904, 196379, 196848, 197313, 197772, 198227, 198677, 199123, 199564, 200000,
     200432, 200860, 201284, 201703, 202119, 202531, 202938, 203342, 203743, 204139,
     204532, 204922, 205308, 205690, 206070, 206446, 206819, 207188, 207555, 207918,
     208279, 208636, 208991, 209342, 209691, 210037, 210380, 210721, 211059, 211394,
     211727, 212057, 212385, 212710, 213033, 213354, 213672, 213988, 214301, 214613,
     214922, 215229, 215534, 215836, 216137, 216435, 216732, 217026, 217319, 217609,
     217898, 218184, 218469, 218752, 219033, 219312, 219590, 219866, 220140, 220412,
     220683, 220952, 221219, 221484, 221748, 222011, 222272, 222531, 222789, 223045,
     223300, 223553, 223805, 224055, 224304, 224551, 224797, 225042, 225285, 225527,
     225768, 226007, 226245, 226482, 226717, 226951, 227184, 227416, 227646, 227875,
     228103, 228330, 228556, 228780, 229003, 229226, 229447, 229667, 229885, 230103 >>

\* mutant of Sturges: the value truncated instead of rounded up
Sturges_Truncado(n) == (100000000 + 3322 * Log10E5[n]) \div 100000000

\* int(np.ceil(1 + 3.322 * np.log10(n))) for n >= 1, in units of 10^-8:
\* 1 + 3.322*log10(n) is 10^8 + 3322 * Log10E5[n], and ceil rounds it up
Sturges(n) ==
  LET x == 100000000 + 3322 * Log10E5[n]
  IN  (x + 99999999) \div 100000000

\* ------------------------------------------------------ series operations
\* Series.dropna(): the non-missing cells, in order
Dropna(col) == SelectSeq(col, LAMBDA v : ~IsNaN(v))

\* the set of values of a series
Valores(s) == {s[j] : j \in 1..Len(s)}

\* Series.min(); NaN on an empty series
SerieMin(s) ==
  IF s = <<>> THEN NaN
  ELSE CHOOSE v \in Valores(s) : \A w \in Valores(s) : FLe(v, w)

\* Series.max(); NaN on an empty series
SerieMax(s) ==
  IF s = <<>> THEN NaN
  ELSE CHOOSE v \in Valores(s) : \A w \in Valores(s) : FLe(w, v)

\* running float sum s[1] + ... + s[i], added left to right (np.cumsum)
RECURSIVE FSumTo(_, _)
FSumTo(s, i) == IF i <= 0 THEN Norm(0, 0) ELSE FAdd(FSumTo(s, i - 1), s[i])

\* running integer sum s[1] + ... + s[i] (np.cumsum on counts)
RECURSIVE SumTo(_, _)
SumTo(s, i) == IF i <= 0 THEN 0 ELSE SumTo(s, i - 1) + s[i]

\* ---------------------------------------------------- the frequency table
\* limites_inferiores[i], i counted from 0:  min_val + i * amplitud
LimiteInferior(min_val, amplitud, i) == FAdd(min_val, FMul(FromInt(i), amplitud))

\* limites_superiores[i], i counted from 0:  min_val + (i + 1) * amplitud
LimiteSuperior(min_val, amplitud, i) == FAdd(min_val, FMul(FromInt(i + 1), amplitud))

\* membership test of the frequency loop for interval i (0-based) of k:
\* closed on the right for the last interval only, chosen by index
EnIntervalo(v, li, ls, i, k) ==
  IF i = k - 1 THEN FGe(v, li) /\ FLe(v, ls)
  ELSE FGe(v, li) /\ FLt(v, ls)

\* (mask).sum(): the number of elements of datos inside interval i
Frecuencia(datos, li, ls, i, k) ==
  Cardinality({j \in 1..Len(datos) : EnIntervalo(datos[j], li, ls, i, k)})

\* row i (0-based) and the rows after it of the DataFrame; acumF and acumH
\* are the running totals np.cumsum has reached before row i.  The columns
\* are li 'Limite Inferior', ls 'Limite Superior', marca 'Marca de Clase',
\* fi 'Frecuencia Absoluta', hi 'Frecuencia Relativa', pct 'Frecuencia
\* Porcentual', Fi 'Frecuencia Acumulada' and Hi 'Frecuencia Rel.
\* Acumulada'; the text column 'Intervalo' (a label) is not modelled.
RECURSIVE Filas(_, _, _, _, _, _, _)
Filas(datos, min_val, amplitud, k, i, acumF, acumH) ==
  IF i >= k THEN <<>>
  ELSE LET li == LimiteInferior(min_val, amplitud, i)
           ls == LimiteSuperior(min_val, amplitud, i)
           f == Frecuencia(datos, li, ls, i, k)
           h == FDiv(FromInt(f), FromInt(Len(datos)))
           fila == [li |-> li,
                    ls |-> ls,
                    marca |-> FDiv(FAdd(li, ls), FromInt(2)),
                    fi |-> f,
                    hi |-> h,
                    pct |-> FMul(h, FromInt(100)),
                    Fi |-> acumF + f,
                    Hi |-> FAdd(acumH, h)]
       IN  <<fila>> \o Filas(datos, min_val, amplitud, k, i + 1, fila.Fi, fila.Hi)

\* the DataFrame built for datos with num_clases = k classes: one record per
\* row, rows 1..k for the code's i = 0..k-1, none when k <= 0 (range(k) is
\* empty)
Tabla(datos, k) ==
  LET min_val == SerieMin(datos)
      max_val == SerieMax(datos)
      rango == FSub(max_val, min_val)
      amplitud == FDiv(rango, FromInt(k))
  IN  Filas(datos, min_val, amplitud, k, 0, 0, Norm(0, 0))

\* the exception calcular_tabla_frecuencias raises on datos with the argument
\* num_clases (None or Some(k)), "" when it raises none:
\*   n = 0, num_clases None : log10(0) = -inf, int(-inf) -> OverflowError
\*   n = 0, num_clases 0    : min() of an empty series is the Python float
\*                            nan, and nan / 0 -> ZeroDivisionError
\*   n > 0, num_clases 0    : numpy scalar / 0 is inf or nan, no exception
ExcepcionTabla(datos, num_clases) ==
  IF Len(datos) = 0 /\ num_clases = None THEN "OverflowError"
  ELSE IF Len(datos) = 0 /\ num_clases = Some(0) THEN "ZeroDivisionError"
  ELSE ""

\* the class count the table is built with
NumClases(datos, num_clases) ==
  IF num_clases = None THEN Sturges(Len(datos)) ELSE num_clases[1]

\* ------------------------------------------------- descriptive statistics
\* s with v inserted before the first element greater than v (s sorted)
RECURSIVE Insertar(_, _)
Insertar(v, s) ==
  IF s = <<>> THEN <<v>>
  ELSE IF FLt(v, Head(s)) THEN <<v>> \o s
  ELSE <<Head(s)>> \o Insertar(v, Tail(s))

\* the values of s in ascending order
RECURSIVE Ordenar(_)
Ordenar(s) == IF s = <<>> THEN <<>> ELSE Insertar(Head(s), Ordenar(Tail(s)))

\* Series.mean(): sum / count; NaN on an empty series
Media(datos) ==
  IF datos = <<>> THEN NaN
  ELSE FDiv(FSumTo(datos, Len(datos)), FromInt(Len(datos)))

\* Series.median(): the middle order statistic, or the mean of the two
\* middle ones when the count is even; NaN on an empty series
Mediana(datos) ==
  LET n == Len(datos)
      o == Ordenar(datos)
  IN  IF n = 0 THEN NaN
      ELSE IF n % 2 = 1 THEN o[(n + 1) \div 2]
      ELSE FDiv(FAdd(o[n \div 2], o[n \div 2 + 1]), FromInt(2))

\* number of occurrences of v in datos (value_counts)
Conteo(datos, v) == Cardinality({j \in 1..Len(datos) : datos[j] = v})

\* mutant of Modas: every distinct value, ascending, whatever its count
Modas_SinConteo(datos) ==
  LET o == Ordenar(datos)
  IN  SelectSeq([i \in 1..Len(o) |-> IF i > 1 /\ o[i] = o[i - 1] THEN NaN ELSE o[i]],
                LAMBDA v : ~IsNaN(v))

\* Series.mode(): the values with the highest occurrence count, ascending
Modas(datos) ==
  LET esModa(v) == \A j \in 1..Len(datos) : Conteo(datos, datos[j]) <= Conteo(datos, v)
      o == Ordenar(datos)
  IN  SelectSeq([i \in 1..Len(o) |-> IF i > 1 /\ o[i] = o[i - 1] THEN NaN ELSE o[i]],
                LAMBDA v : ~IsNaN(v) /\ esModa(v))

\* mutant of PrimeraModa: the last element of the mode list
PrimeraModa_Ultima(modas) == modas[Len(modas)]

\* the first element of a mode list (mode().iloc[0])
PrimeraModa(modas) == modas[1]

\* 'Moda': datos.mode().iloc[0] if len(datos.mode()) > 0 else datos.mean()
Moda(datos) ==
  IF Len(Modas(datos)) > 0 THEN PrimeraModa(Modas(datos)) ELSE Media(datos)

\* floor of the square root of n >= 0
RECURSIVE ISqrt(_)
ISqrt(n) ==
  IF n < 2 THEN n
  ELSE LET r == 2 * ISqrt(n \div 4)
       IN  IF (r + 1) * (r + 1) <= n THEN r + 1 ELSE r

\* m * 2^e (m > 0) rescaled to an even exponent and at least 2*Prec + 2 bits
RECURSIVE SqrtEscala(_, _)
SqrtEscala(m, e) ==
  IF e % 2 # 0 \/ m < Pow2(2 * Prec + 2) THEN SqrtEscala(2 * m, e - 1)
  ELSE <<m, e>>

\* correctly rounded square root; NaN of a negative number
FSqrt(a) ==
  IF IsNaN(a) THEN NaN
  ELSE IF ~IsFin(a) THEN (IF a.m = 1 THEN a ELSE NaN)
  ELSE IF a.m < 0 THEN NaN
  ELSE IF a.m = 0 THEN a
  ELSE LET me == SqrtEscala(a.m, a.e)
           r == ISqrt(me[1])
           resto == IF r * r = me[1] THEN 0 ELSE 1
       IN  Round(1, 2 * r + resto, 2, me[2] \div 2)

\* the squared deviations (avg - values) ** 2
Cuadrados(datos, avg) ==
  [j \in 1..Len(datos) |-> LET d == FSub(avg, datos[j]) IN FMul(d, d)]

\* Series.var(), ddof = 1: sum of squared deviations / (count - 1), and NaN
\* when count <= 1
Varianza(datos) ==
  LET n == Len(datos)
      sqr == Cuadrados(datos, Media(datos))
  IN  IF n <= 1 THEN NaN
      ELSE FDiv(FSumTo(sqr, n), FromInt(n - 1))

\* Series.std(): the square root of var()
DesviacionEstandar(datos) == FSqrt(Varianza(datos))

\* the linear interpolation between a and b at weight t4 / 4:
\* a + (b - a) * t, and b - (b - a) * (1 - t) where t >= 0.5
Lerp(a, b, t4) ==
  LET diff == FSub(b, a)
      t == FDiv(FromInt(t4), FromInt(4))
  IN  IF t4 >= 2 THEN FSub(b, FMul(diff, FSub(FromInt(1), t)))
      ELSE FAdd(a, FMul(diff, t))

\* Series.quantile(q4 / 4), linear interpolation between the order
\* statistics around position (n - 1) * q; NaN on an empty series
Cuantil(datos, q4) ==
  LET n == Len(datos)
      o == Ordenar(datos)
      h4 == (n - 1) * q4
      lo == h4 \div 4
      hiIdx == IF lo + 2 <= n THEN lo + 2 ELSE n
  IN  IF n = 0 THEN NaN ELSE Lerp(o[lo + 1], o[hiIdx], h4 % 4)

\* the dictionary calcular_estadisticas_descriptivas returns
Estadisticas(datos) ==
  [Media |-> Media(datos),
   Mediana |-> Mediana(datos),
   Moda |-> Moda(datos),
   DesviacionEstandar |-> DesviacionEstandar(datos),
   Varianza |-> Varianza(datos),
   Minimo |-> SerieMin(datos),
   Maximo |-> SerieMax(datos),
   Rango |-> FSub(SerieMax(datos), SerieMin(datos)),
   Q1 |-> Cuantil(datos, 1),
   Q2 |-> Cuantil(datos, 2),
   Q3 |-> Cuantil(datos, 3),
   IQR |-> FSub(Cuantil(datos, 3), Cuantil(datos, 1))]

\* ---------------------------------------------------------------- state
\* csv               the file at self.ruta_csv, as pd.read_csv sees it
\* df                self.df: None, or the first numeric column of the frame
\*                   (the empty column when the frame has no numeric column)
\* columna_numerica  self.columna_numerica: None or the column's name
\* tabla_frecuencias self.tabla_frecuencias: None or the table's rows
\* archivos          the files written under carpeta_salida
\* ret               the outcome of the last call: the method, its num_clases
\*                   argument, the exception it raised ("" if none), what it
\*                   returned, and the statistics dictionary when it is one
\* pc                the position of ejecutar_analisis_completo: "listo"
\*                   before it is called, then the method it is about to call
\*                   or the return it is about to make, "fin" once it has
\*                   returned and "excepcion" once an exception has left it
\* pasos             the steps ejecutar_analisis_completo has started, in
\*                   order: one entry per progress line it printed ([1/7] ..
\*                   [7/7], [FINAL]), named by the method the step calls
VARIABLES csv, df, columna_numerica, tabla_frecuencias, archivos, ret, pc, pasos

vars == <<csv, df, columna_numerica, tabla_frecuencias, archivos, ret, pc, pasos>>

\* the numbers of a numeric column: 0..MaxVal
Numeros == {FromInt(v) : v \in 0..MaxVal}

\* a cell of a numeric column: a number, or a missing value
Celdas == Numeros \cup {NaN}

\* the numeric columns read from a file: 1..MaxLen cells
Columnas == UNION {[1..n -> Celdas] : n \in 1..MaxLen}

\* the files the analyzer may be pointed at
CSVs ==
  {[tipo |-> "ilegible", col |-> <<>>], [tipo |-> "sin_numerica", col |-> <<>>]}
  \cup {[tipo |-> "numerica", col |-> c] : c \in Columnas}

\* the num_clases arguments: the default None, or an explicit count
Argumentos == {None} \cup {Some(k) : k \in -1..MaxClases}

Retorno(metodo, num_clases, exc, devuelve, stats) ==
  [metodo |-> metodo, num_clases |-> num_clases, exc |-> exc,
   devuelve |-> devuelve, stats |-> stats]

\* __init__: no frame, no column, no table
InitCon(archivosCsv) ==
  /\ csv \in archivosCsv
  /\ df = None
  /\ columna_numerica = None
  /\ tabla_frecuencias = None
  /\ archivos = {}
  /\ ret = Retorno("__init__", None, "", "", None)
  /\ pc = "listo"
  /\ pasos = <<>>

Init == InitCon(CSVs)

\* cargar_datos: read the file and pick the first numeric column; any
\* exception is caught and turned into the return value False
CargarDatos ==
  /\ \/ /\ csv.tipo = "ilegible"
        /\ UNCHANGED <<df, columna_numerica>>
        /\ ret' = Retorno("cargar_datos", None, "", "False", None)
     \/ /\ csv.tipo = "sin_numerica"
        /\ df' = Some(<<>>)
        /\ UNCHANGED columna_numerica
        /\ ret' = Retorno("cargar_datos", None, "", "False", None)
     \/ /\ csv.tipo = "numerica"
        /\ df' = Some(csv.col)
        /\ columna_numerica' = Some("x")
        /\ ret' = Retorno("cargar_datos", None, "", "True", None)
  /\ UNCHANGED <<csv, tabla_frecuencias, archivos>>

\* the exception of self.df[self.columna_numerica]: None is not
\* subscriptable, and None is no column of a frame
ExcepcionColumna ==
  IF df = None THEN "TypeError"
  ELSE IF columna_numerica = None THEN "KeyError"
  ELSE ""

\* datos = self.df[self.columna_numerica].dropna()
Datos == Dropna(df[1])

\* the series a column of at most MaxLen cells leaves after dropna()
SeriesCortas == UNION {[1..n -> Numeros] : n \in 0..MaxLen}

\* Tabla and Estadisticas on every short series, tabulated once: the
\* actions look their results up here (f @@ <<>> is f, as a stored table).
\* Tabla reads datos through its minimum, its maximum, its length and the
\* counts of Frecuencia, none of which depends on the order of the
\* elements, so its tabulation is indexed by the sorted series.
TablasCortas ==
  [d \in {Ordenar(s) : s \in SeriesCortas}, k \in -1..MaxClases |-> Tabla(d, k)] @@ <<>>

EstadisticasCortas == [d \in SeriesCortas |-> Estadisticas(d)] @@ <<>>

TablaDe(d, k) ==
  IF Len(d) <= MaxLen /\ k \in -1..MaxClases THEN TablasCortas[Ordenar(d), k]
  ELSE Tabla(d, k)

EstadisticasDe(d) ==
  IF d \in DOMAIN EstadisticasCortas THEN EstadisticasCortas[d] ELSE Estadisticas(d)

\* calcular_tabla_frecuencias(num_clases): build the table, store it in
\* self.tabla_frecuencias, write tabla_frecuencias.csv and return the table;
\* an exception leaves the object as it was
CalcularTablaFrecuencias(num_clases) ==
  LET exc == IF ExcepcionColumna # "" THEN ExcepcionColumna
             ELSE ExcepcionTabla(Datos, num_clases)
  IN  /\ IF exc # ""
         THEN /\ UNCHANGED <<tabla_frecuencias, archivos>>
              /\ ret' = Retorno("calcular_tabla_frecuencias", num_clases, exc, "", None)
         ELSE /\ tabla_frecuencias' = Some(TablaDe(Datos, NumClases(Datos, num_clases)))
              /\ archivos' = archivos \cup {"tabla_frecuencias.csv"}
              /\ ret' = Retorno("calcular_tabla_frecuencias", num_clases, "", "tabla", None)
      /\ UNCHANGED <<csv, df, columna_numerica>>

\* calcular_estadisticas_descriptivas: return the statistics dictionary
CalcularEstadisticasDescriptivas ==
  /\ IF ExcepcionColumna # ""
     THEN ret' = Retorno("calcular_estadisticas_descriptivas", None,
                         ExcepcionColumna, "", None)
     ELSE ret' = Retorno("calcular_estadisticas_descriptivas", None, "",
                         "stats", Some(EstadisticasDe(Datos)))
  /\ UNCHANGED <<csv, df, columna_numerica, tabla_frecuencias, archivos>>

\* the methods called one by one on the object, in any order;
\* ejecutar_analisis_completo is not running
Next ==
  \/ CargarDatos /\ UNCHANGED <<pc, pasos>>
  \/ /\ \E num_clases \in Argumentos : CalcularTablaFrecuencias(num_clases)
     /\ UNCHANGED <<pc, pasos>>
  \/ CalcularEstadisticasDescriptivas /\ UNCHANGED <<pc, pasos>>

Spec == Init /\ [][Next]_vars

\* Sturges' rule on long series: one column of each length 1..MaxN, its
\* cells running through 0..MaxVal, and the table built with the default
\* class count
ColumnasLargas == {[i \in 1..n |-> FromInt(i % (MaxVal + 1))] : n \in 1..MaxN}

InitSturges == InitCon({[tipo |-> "numerica", col |-> c] : c \in ColumnasLargas})

NextSturges ==
  \/ CargarDatos /\ UNCHANGED <<pc, pasos>>
  \/ CalcularTablaFrecuencias(None) /\ UNCHANGED <<pc, pasos>>

SpecSturges == InitSturges /\ [][NextSturges]_vars

\* the statistics alone: the file is loaded and the statistics are computed
NextEstadisticas ==
  \/ CargarDatos /\ UNCHANGED <<pc, pasos>>
  \/ CalcularEstadisticasDescriptivas /\ UNCHANGED <<pc, pasos>>

SpecEstadisticas == Init /\ [][NextEstadisticas]_vars

\* the numbers of a column of decimals: pd.read_csv turns each decimal into
\* the nearest float, here the decimals j / 2^Prec between 0 and MaxVal + 1
Decimales == {Round(1, j, Pow2(Prec), 0) : j \in 0..((MaxVal + 1) * Pow2(Prec))}

\* the columns of decimals, no cell missing: 1..MaxLenDec cells
ColumnasDecimales == UNION {[1..n -> Decimales] : n \in 1..MaxLenDec}

\* the statistics of columns of decimals, where the arithmetic rounds
InitCuartiles == InitCon({[tipo |-> "numerica", col |-> c] : c \in ColumnasDecimales})

NextCuartiles ==
  \/ CargarDatos /\ UNCHANGED <<pc, pasos>>
  \/ CalcularEstadisticasDescriptivas /\ UNCHANGED <<pc, pasos>>

SpecCuartiles == InitCuartiles /\ [][NextCuartiles]_vars

\* ------------------------------------------ ejecutar_analisis_completo
\* a chart method (generar_histograma, generar_poligono_frecuencias,
\* generar_ojiva, generar_grafico_torta, generar_grafico_barras): read
\* self.tabla_frecuencias, save the image under imagenes/ and return its
\* path; with no table, len(None) or None[...] raises TypeError
Grafica(metodo, imagen) ==
  /\ IF tabla_frecuencias = None
     THEN /\ UNCHANGED archivos
          /\ ret' = Retorno(metodo, None, "TypeError", "", None)
     ELSE /\ archivos' = archivos \cup {imagen}
          /\ ret' = Retorno(metodo, None, "", "ruta", None)
  /\ UNCHANGED <<csv, df, columna_numerica, tabla_frecuencias>>

GenerarHistograma == Grafica("generar_histograma", "imagenes/histograma.png")

GenerarPoligonoFrecuencias ==
  Grafica("generar_poligono_frecuencias", "imagenes/poligono_frecuencias.png")

GenerarOjiva == Grafica("generar_ojiva", "imagenes/ojiva.png")

GenerarGraficoTorta == Grafica("generar_grafico_torta", "imagenes/grafico_torta.png")

GenerarGraficoBarras == Grafica("generar_grafico_barras", "imagenes/grafico_barras.png")

\* the exception generar_documento_latex raises, "" when it raises none:
\* len(self.df) on None, self.tabla_frecuencias.iterrows() on None, and the
\* column access of calcular_estadisticas_descriptivas
ExcepcionDocumento ==
  IF df = None THEN "TypeError"
  ELSE IF tabla_frecuencias = None THEN "AttributeError"
  ELSE ExcepcionColumna

\* generar_documento_latex: build the document from the table and the
\* statistics, write reporte_estadistico.tex and compile it; when the
\* compilation fails the exception is caught and the .tex path is returned
GenerarDocumentoLatex ==
  /\ IF ExcepcionDocumento # ""
     THEN /\ UNCHANGED archivos
          /\ ret' = Retorno("generar_documento_latex", None, ExcepcionDocumento, "", None)
     ELSE \/ /\ archivos' = archivos \cup {"reporte_estadistico.tex", "reporte_estadistico.pdf"}
             /\ ret' = Retorno("generar_documento_latex", None, "", "pdf", None)
          \/ /\ archivos' = archivos \cup {"reporte_estadistico.tex"}
             /\ ret' = Retorno("generar_documento_latex", None, "", "tex", None)
  /\ UNCHANGED <<csv, df, columna_numerica, tabla_frecuencias>>

\* if not self.cargar_datos(): return False -- where the run goes after
\* cargar_datos returned ok
DespuesDeCargar_SinComprobar(ok) == "calcular_tabla_frecuencias"

DespuesDeCargar(ok) ==
  IF ok THEN "calcular_tabla_frecuencias" ELSE "return False"

\* where the run goes after a call that raised exc ("" if none): no
\* try/except surrounds the calls, so an exception leaves the run
DespuesDe(exc, siguiente) == IF exc # "" THEN "excepcion" ELSE siguiente

\* [1/7] self.cargar_datos()
EjecutarCargarDatos ==
  /\ pc = "listo"
  /\ pasos' = Append(pasos, "cargar_datos")
  /\ CargarDatos
  /\ pc' = DespuesDeCargar(ret'.devuelve = "True")

\* return False
EjecutarReturnFalse ==
  /\ pc = "return False"
  /\ ret' = Retorno("ejecutar_analisis_completo", None, "", "False", None)
  /\ pc' = "fin"
  /\ UNCHANGED <<csv, df, columna_numerica, tabla_frecuencias, archivos, pasos>>

\* [2/7] self.calcular_tabla_frecuencias()
EjecutarTablaFrecuencias ==
  /\ pc = "calcular_tabla_frecuencias"
  /\ pasos' = Append(pasos, "calcular_tabla_frecuencias")
  /\ CalcularTablaFrecuencias(None)
  /\ pc' = DespuesDe(ret'.exc, "generar_histograma")

\* [3/7] self.generar_histograma()
EjecutarHistograma ==
  /\ pc = "generar_histograma"
  /\ pasos' = Append(pasos, "generar_histograma")
  /\ GenerarHistograma
  /\ pc' = DespuesDe(ret'.exc, "generar_poligono_frecuencias")

\* [4/7] self.generar_poligono_frecuencias()
EjecutarPoligonoFrecuencias ==
  /\ pc = "generar_poligono_frecuencias"
  /\ pasos' = Append(pasos, "generar_poligono_frecuencias")
  /\ GenerarPoligonoFrecuencias
  /\ pc' = DespuesDe(ret'.exc, "generar_ojiva")

\* [5/7] self.generar_ojiva()
EjecutarOjiva ==
  /\ pc = "generar_ojiva"
  /\ pasos' = Append(pasos, "generar_ojiva")
  /\ GenerarOjiva
  /\ pc' = DespuesDe(ret'.exc, "generar_grafico_torta")

\* [6/7] self.generar_grafico_torta()
EjecutarGraficoTorta ==
  /\ pc = "generar_grafico_torta"
  /\ pasos' = Append(pasos, "generar_grafico_torta")
  /\ GenerarGraficoTorta
  /\ pc' = DespuesDe(ret'.exc, "generar_grafico_barras")

\* [7/7] self.generar_grafico_barras()
EjecutarGraficoBarras ==
  /\ pc = "generar_grafico_barras"
  /\ pasos' = Append(pasos, "generar_grafico_barras")
  /\ GenerarGraficoBarras
  /\ pc' = DespuesDe(ret'.exc, "generar_documento_latex")

\* [FINAL] ruta_documento = self.generar_documento_latex()
EjecutarDocumentoLatex ==
  /\ pc = "generar_documento_latex"
  /\ pasos' = Append(pasos, "generar_documento_latex")
  /\ GenerarDocumentoLatex
  /\ pc' = DespuesDe(ret'.exc, "return True")

\* return True
EjecutarReturnTrue ==
  /\ pc = "return True"
  /\ ret' = Retorno("ejecutar_analisis_completo", None, "", "True", None)
  /\ pc' = "fin"
  /\ UNCHANGED <<csv, df, columna_numerica, tabla_frecuencias, archivos, pasos>>

\* one call of ejecutar_analisis_completo on a new object, as main() makes
NextAnalisis ==
  \/ EjecutarCargarDatos
  \/ EjecutarReturnFalse
  \/ EjecutarTablaFrecuencias
  \/ EjecutarHistograma
  \/ EjecutarPoligonoFrecuencias
  \/ EjecutarOjiva
  \/ EjecutarGraficoTorta
  \/ EjecutarGraficoBarras
  \/ EjecutarDocumentoLatex
  \/ EjecutarReturnTrue

SpecAnalisis == Init /\ [][NextAnalisis]_vars

\* ------------------------------------------------------------- properties
\* the last call was calcular_tabla_frecuencias on a loaded numeric column
LlamadaTabla ==
  ret.metodo = "calcular_tabla_frecuencias" /\ ExcepcionColumna = ""

\* ... and it returned the table now in self.tabla_frecuencias
TablaDevuelta == LlamadaTabla /\ ret.devuelve = "tabla"

\* ... built with the Sturges default or an explicit class count >= 1
TablaConClases ==
  TablaDevuelta /\ (ret.num_clases = None \/ ret.num_clases[1] >= 1)

\* the last call was calcular_estadisticas_descriptivas on a loaded numeric
\* column
LlamadaEstadisticas ==
  ret.metodo = "calcular_estadisticas_descriptivas" /\ ExcepcionColumna = ""

\* ... and it returned the dictionary ret.stats[1]
EstadisticasDevueltas == LlamadaEstadisticas /\ ret.devuelve = "stats"

\* the sum of the absolute frequencies of the first i rows of table t
RECURSIVE SumaFi(_, _)
SumaFi(t, i) == IF i = 0 THEN 0 ELSE SumaFi(t, i - 1) + t[i].fi

\* the relative frequencies of the first i rows of t, added in row order
RECURSIVE SumaHi(_, _)
SumaHi(t, i) == IF i = 1 THEN t[1].hi ELSE FAdd(SumaHi(t, i - 1), t[i].hi)

\* how often the value v occurs in the series
Veces(v) == Cardinality({j \in 1..Len(Datos) : Datos[j] = v})

\* no value of the series occurs more than once
SinRepetidos == \A i, j \in 1..Len(Datos) : Datos[i] = Datos[j] => i = j

\* C1 (as claimed): for a non-empty series and the Sturges default or an
\* explicit class count >= 1, the absolute frequencies of the table add up
\* to n, the number of non-missing values.
C1_SumaFrecuencias ==
  (TablaConClases /\ Len(Datos) >= 1) =>
    LET t == tabla_frecuencias[1]
    IN  SumaFi(t, Len(t)) = Len(Datos)

\* C2 (as claimed): a value is counted in interval i iff li <= v < ls, for
\* the last interval (by index) iff li <= v <= ls, and so the series maximum
\* is counted in the last interval.
C2_Pertenencia ==
  (TablaConClases /\ Len(Datos) >= 1) =>
    LET t == tabla_frecuencias[1]
        k == Len(t)
        dentro(v, i) ==
          IF i = k THEN FLe(t[i].li, v) /\ FLe(v, t[i].ls)
          ELSE FLe(t[i].li, v) /\ FLt(v, t[i].ls)
    IN  /\ \A i \in 1..k :
             t[i].fi = Cardinality({j \in 1..Len(Datos) : dentro(Datos[j], i)})
        /\ dentro(SerieMax(Datos), k)

\* C3 (as claimed): when all values are identical the table is the single
\* interval [min, min] with absolute frequency n, whatever the class count.
C3_IntervaloDegenerado ==
  (TablaConClases /\ Len(Datos) >= 1 /\ SerieMin(Datos) = SerieMax(Datos)) =>
    LET t == tabla_frecuencias[1]
    IN  /\ Len(t) = 1
        /\ t[1].li = SerieMin(Datos)
        /\ t[1].ls = SerieMin(Datos)
        /\ t[1].fi = Len(Datos)

\* C4 (as claimed): on a series that is empty once the missing values are
\* removed, both methods raise InvalidInputError and return nothing.
C4_SerieVacia ==
  ((LlamadaTabla \/ LlamadaEstadisticas) /\ Len(Datos) = 0) =>
    (ret.exc = "InvalidInputError" /\ ret.devuelve = "")

\* C5 (as claimed): on a non-empty series, an explicit class count below 1
\* makes calcular_tabla_frecuencias raise InvalidInputError; no table is
\* returned.
C5_ClasesInvalidas ==
  (LlamadaTabla /\ Len(Datos) >= 1 /\ ret.num_clases # None
     /\ ret.num_clases[1] < 1) =>
    (ret.exc = "InvalidInputError" /\ ret.devuelve = "")

\* C6 (as claimed): for a single-element series the variance and the
\* standard deviation returned are 0, and no error is raised.
C6_VarianzaUnElemento ==
  (LlamadaEstadisticas /\ Len(Datos) = 1) =>
    /\ ret.exc = ""
    /\ ret.devuelve = "stats"
    /\ ret.stats[1].Varianza = FromInt(0)
    /\ ret.stats[1].DesviacionEstandar = FromInt(0)

\* C7 (as claimed): for a non-empty series in which no value repeats, 'Moda'
\* equals the arithmetic mean.
C7_ModaEsMedia ==
  (EstadisticasDevueltas /\ Len(Datos) >= 1 /\ SinRepetidos) =>
    ret.stats[1].Moda = ret.stats[1].Media

\* C7 (amended): for a non-empty series in which no value repeats, 'Moda' is
\* the smallest value of the series.
C7_ModaSinRepetidos ==
  (EstadisticasDevueltas /\ Len(Datos) >= 1 /\ SinRepetidos) =>
    /\ ret.stats[1].Moda \in Valores(Datos)
    /\ \A j \in 1..Len(Datos) : FLe(ret.stats[1].Moda, Datos[j])

\* C7 witness: statistics of a series of several values, none repeated,
\* whose 'Moda' differs from its mean
C7_Testigo ==
  /\ EstadisticasDevueltas
  /\ Len(Datos) >= 2
  /\ SinRepetidos
  /\ ret.stats[1].Moda # ret.stats[1].Media

\* C8: for a non-empty series, 'Moda' is a value of the series with the
\* highest occurrence count, and the smallest of the values with that count.
C8_ModaMasFrecuente ==
  (EstadisticasDevueltas /\ Len(Datos) >= 1) =>
    LET moda == ret.stats[1].Moda
    IN  /\ moda \in Valores(Datos)
        /\ \A v \in Valores(Datos) : Veces(v) <= Veces(moda)
        /\ \A v \in Valores(Datos) : Veces(v) = Veces(moda) => FLe(moda, v)

\* C8 witness: statistics of a series whose most frequent value occurs
\* twice or more and is not the smallest value of the series
C8_Testigo ==
  /\ EstadisticasDevueltas
  /\ \E v \in Valores(Datos) :
       /\ Veces(v) >= 2
       /\ v = ret.stats[1].Moda
       /\ \E w \in Valores(Datos) : FLt(w, v)

\* C9: with no class count supplied the table has ceil(1 + 3.322*log10(n))
\* rows: the integer k with k - 1 < 1 + 3.322*log10(n) <= k (in units of
\* 10^-8), which is 8 for n = 100, 1 for n = 1 and never less than 1.
C9_Sturges ==
  (TablaDevuelta /\ ret.num_clases = None /\ Len(Datos) >= 1) =>
    LET n == Len(Datos)
        k == Len(tabla_frecuencias[1])
        x == 100000000 + 3322 * Log10E5[n]
    IN  /\ k >= 1
        /\ (k - 1) * 100000000 < x
        /\ x <= k * 100000000
        /\ (n = 100 => k = 8)
        /\ (n = 1 => k = 1)

\* C9 witness: the default table of a series of 100 values has 8 rows
C9_Testigo ==
  /\ TablaDevuelta
  /\ ret.num_clases = None
  /\ Len(Datos) = 100
  /\ Len(tabla_frecuencias[1]) = 8

\* C10 (as claimed): the cumulative columns are prefix sums in row order,
\* the cumulative absolute frequency never decreases, and the last row has
\* cumulative absolute frequency n and cumulative relative frequency 1.
C10_Acumuladas ==
  (TablaConClases /\ Len(Datos) >= 1) =>
    LET t == tabla_frecuencias[1]
        k == Len(t)
    IN  /\ \A i \in 1..k : t[i].Fi = SumaFi(t, i) /\ t[i].Hi = SumaHi(t, i)
        /\ \A i \in 1..(k - 1) : t[i].Fi <= t[i + 1].Fi
        /\ t[k].Fi = Len(Datos)
        /\ t[k].Hi = FromInt(1)

\* C11 (as claimed): for a series with range > 0 and the Sturges default or
\* an explicit class count k >= 1, the table has exactly k intervals,
\* interval i (from 0) runs from min + i*width to min + (i+1)*width with
\* width = range / k, the first lower limit is the series minimum, the last
\* upper limit is the series maximum, each upper limit is the next lower
\* limit, and every interval has its lower limit below its upper limit (so
\* the intervals ascend).
C11_Intervalos ==
  (TablaConClases /\ Len(Datos) >= 1 /\ FLt(SerieMin(Datos), SerieMax(Datos))) =>
    LET t == tabla_frecuencias[1]
        k == NumClases(Datos, ret.num_clases)
        min_val == SerieMin(Datos)
        max_val == SerieMax(Datos)
        width == FDiv(FSub(max_val, min_val), FromInt(k))
    IN  /\ Len(t) = k
        /\ \A i \in 1..Len(t) :
             /\ t[i].li = FAdd(min_val, FMul(FromInt(i - 1), width))
             /\ t[i].ls = FAdd(min_val, FMul(FromInt(i), width))
             /\ FLt(t[i].li, t[i].ls)
        /\ \A i \in 1..(Len(t) - 1) : t[i].ls = t[i + 1].li
        /\ t[1].li = min_val
        /\ t[Len(t)].ls = max_val

\* C12 (as claimed): for a non-empty series the returned record has
\* Q1 <= Q2 <= Q3, Q2 equal to the field 'Mediana', IQR equal to Q3 - Q1 and
\* not negative, and each quartile lies between the two order statistics
\* around position (n - 1) * q of the sorted series, q = 0.25, 0.50, 0.75.
C12_Cuartiles ==
  (EstadisticasDevueltas /\ Len(Datos) >= 1) =>
    LET st == ret.stats[1]
        n == Len(Datos)
        o == Ordenar(Datos)
        entre(q, q4) ==
          LET lo == ((n - 1) * q4) \div 4
              hiIdx == IF lo + 2 <= n THEN lo + 2 ELSE n
          IN  FLe(o[lo + 1], q) /\ FLe(q, o[hiIdx])
    IN  /\ FLe(st.Q1, st.Q2)
        /\ FLe(st.Q2, st.Q3)
        /\ st.Q2 = st.Mediana
        /\ st.IQR = FSub(st.Q3, st.Q1)
        /\ FGe(st.IQR, FromInt(0))
        /\ entre(st.Q1, 1)
        /\ entre(st.Q2, 2)
        /\ entre(st.Q3, 3)

\* the eight steps in the order the claim gives them: load data, frequency
\* table, histogram, polygon, ogive, pie chart, bar chart, document
OrdenDePasos ==
  << "cargar_datos", "calcular_tabla_frecuencias", "generar_histograma",
     "generar_poligono_frecuencias", "generar_ojiva", "generar_grafico_torta",
     "generar_grafico_barras", "generar_documento_latex" >>

\* the chart steps and the document step
GraficasYDocumento == {OrdenDePasos[i] : i \in 3..8}

\* C13: in every run of ejecutar_analisis_completo the steps started so far
\* are the first steps of the fixed order (load, table, histogram, polygon,
\* ogive, pie, bar, document), and a run that returned True started all
\* eight; no chart or document step is about to start or has started while
\* self.tabla_frecuencias is None; and when the CSV is unreadable or has no
\* numeric column the run goes from cargar_datos straight to return False,
\* with no table computed, no file written and no other step started.
C13_OrdenDePasos ==
  /\ Len(pasos) <= Len(OrdenDePasos)
  /\ \A i \in 1..Len(pasos) : pasos[i] = OrdenDePasos[i]
  /\ (pc = "fin" /\ ret.devuelve = "True") => pasos = OrdenDePasos
  /\ pc \in GraficasYDocumento => tabla_frecuencias # None
  /\ (\E i \in 1..Len(pasos) : pasos[i] \in GraficasYDocumento) =>
       tabla_frecuencias # None
  /\ (pasos # <<>> /\ csv.tipo # "numerica") =>
       /\ pc \in {"return False", "fin"}
       /\ pasos = <<"cargar_datos">>
       /\ tabla_frecuencias = None
       /\ archivos = {}
       /\ pc = "fin" =>
            (ret.metodo = "ejecutar_analisis_completo" /\ ret.devuelve = "False")

\* C13 witness: a run that returned True after starting the eight steps in
\* order, with the table stored and the five images and the document written
C13_Testigo ==
  /\ pc = "fin"
  /\ ret.metodo = "ejecutar_analisis_completo"
  /\ ret.devuelve = "True"
  /\ pasos = OrdenDePasos
  /\ tabla_frecuencias # None
  /\ Cardinality(archivos) >= 7

====
